---------------------------- MODULE Spec2Model ----------------------------
(* Model of the threshold-signing session of bitcore-tss                   *)
(* (packages/bitcore-tss/ecdsa/sign.js, class Sign): the round counter,    *)
(* the engine handle, envelopes, export records and restore.               *)
EXTENDS Integers, Sequences, FiniteSets, TLC

VARIABLES
  sess,     \* slot -> the private fields of a Sign object, or NoSession
  out,      \* slot -> the envelopes the session's calls returned, in order
  last,     \* the call made last: operation, slot, outcome, thrown error
  hist,     \* slot -> counts of calls made on the session (history)
  pair,     \* the two sessions that run the end-to-end exchange
  calls,    \* slot -> the initJoin invocations in flight on the session
  networks,     \* networks.js: the registered networks, in order
  networkMaps,  \* networks.js: property key -> the networks indexed by it
  created       \* networks.js: the Network objects constructed so far

\* the state of the module networks.js
registry == <<networks, networkMaps, created>>

vars == <<sess, out, last, hist, pair, calls, registry>>

-----------------------------------------------------------------------------
(* Bounds of the model.                                                    *)

\* longest prevRoundMessages array a caller passes
MaxLen == 2
\* envelopes of each session a caller still holds: the ones returned last
MaxKept == 2
\* nextRound calls each session of the end-to-end scenario attempts
MaxExchanges == 5
\* successful getSignature calls counted on each session
MaxReads == 2
\* largest number of parties a constructor call is given
MaxN == 3
\* Network objects constructed, the four of the loaded module among them
MaxNetworks == 5
\* initJoin invocations started on one session
MaxOverlap == 2

(* Program constants.                                                      *)

\* number of protocol rounds (sign.js:165, 192)
FinalRound == 5
\* byte length of a message hash (sign.js:57)
HashLen == 32

-----------------------------------------------------------------------------
(* Values.                                                                 *)

NULL == "null"
\* the number NaN, and an absent (null or undefined) number, string, buffer
NaN == 0 - 1000
NoNumber == 0 - 1001
Undefined == <<"undefined">>
NoBuffer == [len |-> 0, data |-> "undefined"]
NoKeychain == [absent |-> TRUE]
NoSignature == [nosig |-> TRUE]
NoSession == [none |-> TRUE]
\* an argument that is no array (an object)
NotArray == <<[notArray |-> TRUE]>>

\* (n, m) of the signing ceremonies the model runs
Configs == { [n |-> 2, m |-> 2] }
\* (n, m) of the end-to-end scenario
EndToEnd == [n |-> 3, m |-> 2]

\* number of parties of the largest ceremony
MaxParties ==
  CHOOSE n \in { c.n : c \in Configs \cup {EndToEnd} } :
    \A c \in Configs \cup {EndToEnd} : c.n <= n

Parties == 0 .. (MaxParties - 1)
\* one slot for each party's session, and one for a session restore() returns
RestoreSlot == MaxParties + 1
Slots == 1 .. RestoreSlot

\* derivation paths, as sequences of characters
Paths == { Undefined, <<"m">>, <<"m", "/", "0">>, <<"m", ":", "0">> }

\* identity private keys; party p signs with key p + 1
Keys == 1 .. MaxParties
AuthKeyOf(p) == p + 1
\* the public key of a private key (PrivateKey.publicKey.toString())
PublicKey(k) == 100 + k

\* the 32-byte all-zero message hash
ZeroHash == [len |-> HashLen, data |-> "zero"]
\* key share of party p
Keychain(p) == [privateKeyShare |-> [isBuffer |-> TRUE, share |-> p],
                commonKeyChain |-> [isBuffer |-> TRUE, chain |-> "common"]]

-----------------------------------------------------------------------------
(* Results of calls: a value, or a thrown error.                           *)

Ok(v) == [ok |-> TRUE, err |-> "none", val |-> v]
Throw(e) == [ok |-> FALSE, err |-> e, val |-> NULL]

-----------------------------------------------------------------------------
(* The signing engine (DklsDsg.Dsg), seen through the calls Sign makes.    *)

\* new DklsDsg.Dsg(share, partyId, derivationPath, messageHash)
NewDsg == [steps |-> 0]

\* dsg.init(): the first-round message, or a throw
DsgInit(dsg, fault) ==
  IF fault = "init" \/ dsg.steps # 0
  THEN Throw("engine")
  ELSE Ok([dsg |-> [steps |-> 1], msg |-> [step |-> 0]])

\* dsg.handleIncomingMessages(msgs): the next message, or a throw
DsgHandleIncomingMessages(dsg, payloads, fault) ==
  IF \/ fault = "engine"
     \/ dsg.steps < 1
     \/ dsg.steps >= FinalRound
     \/ \E i \in 1 .. Len(payloads) : payloads[i].step # dsg.steps - 1
  THEN Throw("engine")
  ELSE Ok([dsg |-> [steps |-> dsg.steps + 1], msg |-> [step |-> dsg.steps]])

\* dsg.dsgSessionBytes || dsg.dsgSession?.toBytes()
DsgSessionBytes(dsg) ==
  IF dsg.steps = 0 THEN NoBuffer ELSE [len |-> 64, data |-> dsg.steps]

\* dsg.setSession(bytes)
DsgSetSession(dsg, bytes) ==
  IF bytes.len = 64 /\ bytes.data \in 1 .. FinalRound
  THEN Ok([steps |-> bytes.data])
  ELSE Throw("engine")

-----------------------------------------------------------------------------
(* DklsComms and utils: authenticated encryption under identity keys.      *)

\* the recipients of a broadcast-only message: nobody in particular
AllParties == {}

\* DklsComms.encryptAndAuthOutgoingMessages(messages, pubKeys, authKey)
EncryptAndAuthOutgoingMessages(msg, pubKeys, authKey, fault) ==
  IF fault = "encrypt"
  THEN Throw("encrypt")
  ELSE Ok([step |-> msg.step,
           signer |-> PublicKey(authKey),
           to |-> pubKeys])

\* one envelope decrypts and verifies under authKey
Readable(env, authKey) ==
  /\ env.payload.signer = env.publicKey
  /\ \/ env.payload.to = AllParties
     \/ PublicKey(authKey) \in env.payload.to

\* DklsComms.decryptAndVerifyIncomingMessages(messages, authKey)
DecryptAndVerifyIncomingMessages(msgs, authKey, fault) ==
  IF fault = "decrypt" \/ \E i \in 1 .. Len(msgs) : ~Readable(msgs[i], authKey)
  THEN Throw("decrypt")
  ELSE Ok([i \in 1 .. Len(msgs) |-> [step |-> msgs[i].payload.step]])

\* utils.encrypt(payload, publicKey, privateKey), base64 encoded
Encrypt(payload, authKey) == [cipher |-> payload, key |-> PublicKey(authKey)]

\* utils.decrypt(buf, publicKey, privateKey)
Decrypt(rec, authKey) ==
  IF rec.key = PublicKey(authKey) THEN Ok(rec.cipher) ELSE Throw("decrypt")


-----------------------------------------------------------------------------
(* Strings: sequences of tokens. A token is one character of a derivation  *)
(* path, one decimal digit, the separator, or one base64 text (base64      *)
(* never holds the separator).                                             *)

Sep == ":"
Digits == <<"0", "1", "2", "3", "4", "5", "6", "7", "8", "9">>
IsDigit(c) == \E d \in 1 .. Len(Digits) : Digits[d] = c
DigitValue(c) == (CHOOSE d \in 1 .. Len(Digits) : Digits[d] = c) - 1

\* number -> string, as the + operator of export() converts it
RECURSIVE NumToString(_)
NumToString(k) ==
  IF k < 10 THEN <<Digits[k + 1]>>
  ELSE NumToString(k \div 10) \o <<Digits[(k % 10) + 1]>>

\* value of the longest prefix of digits of str, read left to right
RECURSIVE DigitPrefix(_, _)
DigitPrefix(str, acc) ==
  IF str = <<>> \/ ~IsDigit(Head(str)) THEN acc
  ELSE DigitPrefix(Tail(str), acc * 10 + DigitValue(Head(str)))

\* parseInt(str) of a string
ParseInt(str) ==
  IF str = <<>> \/ ~IsDigit(Head(str)) THEN NaN ELSE DigitPrefix(str, 0)

\* str.split(':')
RECURSIVE Split(_)
Split(str) ==
  IF \A i \in 1 .. Len(str) : str[i] # Sep THEN <<str>>
  ELSE LET i == CHOOSE j \in 1 .. Len(str) :
                  str[j] = Sep /\ \A k \in 1 .. (j - 1) : str[k] # Sep
       IN <<SubSeq(str, 1, i - 1)>> \o Split(SubSeq(str, i + 1, Len(str)))

\* the bytes of an engine session after k steps
SessionBytes(k) == [len |-> 64, data |-> k]
\* base64 text of the session bytes after k steps, one token each
SessionTexts == <<"S1", "S2", "S3", "S4", "S5">>
\* base64 text of the all-zero hash, one token
HashText == "H"

\* buf.toString('base64')
ToBase64(buf) ==
  IF buf = ZeroHash THEN <<HashText>> ELSE <<SessionTexts[buf.data]>>

\* Buffer.from(str, 'base64')
FromBase64(str) ==
  IF str = <<HashText>> THEN ZeroHash
  ELSE IF Len(str) = 1 /\ \E k \in 1 .. Len(SessionTexts) : SessionTexts[k] = str[1]
       THEN SessionBytes(CHOOSE k \in 1 .. Len(SessionTexts) : SessionTexts[k] = str[1])
       ELSE [len |-> Len(str), data |-> 0]

-----------------------------------------------------------------------------
(* class Sign. A session is the record of the private fields of one Sign   *)
(* object. A method is an operator from the object (and the arguments) to  *)
(* the outcome: ok, the error thrown, the object afterwards, the value.    *)

Return(self, v) == [ok |-> TRUE, err |-> "none", self |-> self, val |-> v]
Raise(self, e) == [ok |-> FALSE, err |-> e, self |-> self, val |-> NULL]

\* 'm'.startsWith: the string begins with the character m
StartsWithM(str) == str # <<>> /\ Head(str) = "m"

\* a string that || takes for false: absent, or empty
Falsy(str) == str = Undefined \/ str = <<>>

\* the constructor without the assertion n > 1
Constructor_NoSizeCheck(p) ==
  IF \/ p.keychain = NoKeychain \/ p.partyId = NoNumber \/ p.n = NoNumber
     \/ p.m = NoNumber \/ p.messageHash = NoBuffer \/ p.authKey = NoNumber
  THEN Throw("required")
  ELSE IF ~(p.keychain.privateKeyShare.isBuffer /\ p.keychain.commonKeyChain.isBuffer)
  THEN Throw("keychain")
  ELSE IF ~(p.partyId >= 0 /\ p.partyId < p.n)
  THEN Throw("partyId")
  ELSE IF ~(p.m > 0 /\ p.m <= p.n)
  THEN Throw("m")
  ELSE IF ~(p.derivationPath = Undefined \/ StartsWithM(p.derivationPath))
  THEN Throw("derivationPath")
  ELSE IF ~(p.messageHash.len = HashLen)
  THEN Throw("messageHash")
  ELSE IF ~(p.round = NoNumber \/ (p.round >= 0 /\ p.round <= FinalRound))
  THEN Throw("round")
  ELSE IF p.authKey \notin Keys
  THEN Throw("authKey")
  ELSE Ok([keychain |-> p.keychain,
           partyId |-> p.partyId,
           partySize |-> p.n,
           minSigners |-> p.m,
           derivationPath |-> IF Falsy(p.derivationPath) THEN <<"m">>
                              ELSE p.derivationPath,
           messageHash |-> p.messageHash,
           round |-> IF p.round = NoNumber THEN 0 ELSE p.round,
           authKey |-> p.authKey,
           dsg |-> NewDsg,
           signature |-> NoSignature])

\* the constructor without the assertion on derivationPath
Constructor_NoPathCheck(p) ==
  IF \/ p.keychain = NoKeychain \/ p.partyId = NoNumber \/ p.n = NoNumber
     \/ p.m = NoNumber \/ p.messageHash = NoBuffer \/ p.authKey = NoNumber
  THEN Throw("required")
  ELSE IF ~(p.keychain.privateKeyShare.isBuffer /\ p.keychain.commonKeyChain.isBuffer)
  THEN Throw("keychain")
  ELSE IF ~(p.partyId >= 0 /\ p.partyId < p.n)
  THEN Throw("partyId")
  ELSE IF ~(p.n > 1)
  THEN Throw("n")
  ELSE IF ~(p.m > 0 /\ p.m <= p.n)
  THEN Throw("m")
  ELSE IF ~(p.messageHash.len = HashLen)
  THEN Throw("messageHash")
  ELSE IF ~(p.round = NoNumber \/ (p.round >= 0 /\ p.round <= FinalRound))
  THEN Throw("round")
  ELSE IF p.authKey \notin Keys
  THEN Throw("authKey")
  ELSE Ok([keychain |-> p.keychain,
           partyId |-> p.partyId,
           partySize |-> p.n,
           minSigners |-> p.m,
           derivationPath |-> IF Falsy(p.derivationPath) THEN <<"m">>
                              ELSE p.derivationPath,
           messageHash |-> p.messageHash,
           round |-> IF p.round = NoNumber THEN 0 ELSE p.round,
           authKey |-> p.authKey,
           dsg |-> NewDsg,
           signature |-> NoSignature])

\* constructor({ keychain, partyId, n, m, derivationPath, messageHash, authKey, round })
Constructor(p) ==
  IF \/ p.keychain = NoKeychain \/ p.partyId = NoNumber \/ p.n = NoNumber
     \/ p.m = NoNumber \/ p.messageHash = NoBuffer \/ p.authKey = NoNumber
  THEN Throw("required")
  ELSE IF ~(p.keychain.privateKeyShare.isBuffer /\ p.keychain.commonKeyChain.isBuffer)
  THEN Throw("keychain")
  ELSE IF ~(p.partyId >= 0 /\ p.partyId < p.n)
  THEN Throw("partyId")
  ELSE IF ~(p.n > 1)
  THEN Throw("n")
  ELSE IF ~(p.m > 0 /\ p.m <= p.n)
  THEN Throw("m")
  ELSE IF ~(p.derivationPath = Undefined \/ StartsWithM(p.derivationPath))
  THEN Throw("derivationPath")
  ELSE IF ~(p.messageHash.len = HashLen)
  THEN Throw("messageHash")
  ELSE IF ~(p.round = NoNumber \/ (p.round >= 0 /\ p.round <= FinalRound))
  THEN Throw("round")
  ELSE IF p.authKey \notin Keys
  THEN Throw("authKey")
  ELSE Ok([keychain |-> p.keychain,
           partyId |-> p.partyId,
           partySize |-> p.n,
           minSigners |-> p.m,
           derivationPath |-> IF Falsy(p.derivationPath) THEN <<"m">>
                              ELSE p.derivationPath,
           messageHash |-> p.messageHash,
           round |-> IF p.round = NoNumber THEN 0 ELSE p.round,
           authKey |-> p.authKey,
           dsg |-> NewDsg,
           signature |-> NoSignature])

\* isSignatureReady()
IsSignatureReady(self) == self.round = FinalRound

\* export() without the assertion that the session is not completed
Export_NoCompletedCheck(self) ==
  IF ~(self.round > 0) THEN Raise(self, "notStarted")
  ELSE IF DsgSessionBytes(self.dsg) = NoBuffer THEN Raise(self, "typeError")
  ELSE LET payload == NumToString(self.round)
                        \o <<Sep>> \o NumToString(self.partySize)
                        \o <<Sep>> \o NumToString(self.minSigners)
                        \o <<Sep>> \o NumToString(self.partyId)
                        \o <<Sep>> \o self.derivationPath
                        \o <<Sep>> \o ToBase64(DsgSessionBytes(self.dsg))
                        \o <<Sep>> \o ToBase64(self.messageHash)
       IN Return(self, Encrypt(payload, self.authKey))

\* export()
Export(self) ==
  IF ~(self.round > 0) THEN Raise(self, "notStarted")
  ELSE IF IsSignatureReady(self) THEN Raise(self, "completed")
  ELSE IF DsgSessionBytes(self.dsg) = NoBuffer THEN Raise(self, "typeError")
  ELSE LET payload == NumToString(self.round)
                        \o <<Sep>> \o NumToString(self.partySize)
                        \o <<Sep>> \o NumToString(self.minSigners)
                        \o <<Sep>> \o NumToString(self.partyId)
                        \o <<Sep>> \o self.derivationPath
                        \o <<Sep>> \o ToBase64(DsgSessionBytes(self.dsg))
                        \o <<Sep>> \o ToBase64(self.messageHash)
       IN Return(self, Encrypt(payload, self.authKey))

\* the i-th element of a destructured array: undefined past its end
Field(fields, i) == IF i <= Len(fields) THEN fields[i] ELSE Undefined

\* static restore({ session, keychain, authKey })
Restore(session, keychain, authKey) ==
  IF authKey \notin Keys THEN Throw("authKey")
  ELSE LET plain == Decrypt(session, authKey) IN
  IF ~plain.ok THEN Throw("decrypt")
  ELSE LET fields == Split(plain.val)
           round == Field(fields, 1)
           partySize == Field(fields, 2)
           minSigners == Field(fields, 3)
           partyId == Field(fields, 4)
           derivationPath == Field(fields, 5)
           dsgSessionBytes == Field(fields, 6)
           messageHash == Field(fields, 7)
       IN
  IF messageHash = Undefined \/ dsgSessionBytes = Undefined THEN Throw("typeError")
  ELSE LET signer == Constructor([keychain |-> keychain,
                                  n |-> ParseInt(partySize),
                                  m |-> ParseInt(minSigners),
                                  partyId |-> ParseInt(partyId),
                                  derivationPath |-> derivationPath,
                                  messageHash |-> FromBase64(messageHash),
                                  authKey |-> authKey,
                                  round |-> ParseInt(round)])
       IN
  IF ~signer.ok THEN signer
  ELSE LET dsg == DsgSetSession(signer.val.dsg, FromBase64(dsgSessionBytes)) IN
  IF ~dsg.ok THEN Throw("engine")
  ELSE Ok([signer.val EXCEPT !.dsg = dsg.val])

\* _formatMessage with the increment left out (round: this.#round)
FormatMessage_NoIncrement(self, signedMessage) ==
  [envelope |-> [round |-> self.round,
                 partyId |-> self.partyId,
                 publicKey |-> PublicKey(self.authKey),
                 payload |-> signedMessage],
   self |-> self]

\* _formatMessage counting down (round: this.#round--)
FormatMessage_Decrement(self, signedMessage) ==
  [envelope |-> [round |-> self.round,
                 partyId |-> self.partyId,
                 publicKey |-> PublicKey(self.authKey),
                 payload |-> signedMessage],
   self |-> [self EXCEPT !.round = self.round - 1]]

\* _formatMessage tagging with the incremented round (round: ++this.#round)
FormatMessage_TagAfterIncrement(self, signedMessage) ==
  [envelope |-> [round |-> self.round + 1,
                 partyId |-> self.partyId,
                 publicKey |-> PublicKey(self.authKey),
                 payload |-> signedMessage],
   self |-> [self EXCEPT !.round = self.round + 1]]

\* _formatMessage(signedMessage): the envelope, and the object with round++
FormatMessage(self, signedMessage) ==
  [envelope |-> [round |-> self.round,
                 partyId |-> self.partyId,
                 publicKey |-> PublicKey(self.authKey),
                 payload |-> signedMessage],
   self |-> [self EXCEPT !.round = self.round + 1]]

InitJoinFaults == { "none", "init", "serialize", "encrypt" }

\* initJoin() without the assertion on round
InitJoin_NoRoundCheck(self, fault) ==
  LET unsignedMessageR1 == DsgInit(self.dsg, fault) IN
  IF ~unsignedMessageR1.ok THEN Raise(self, "engine")
  ELSE LET inited == [self EXCEPT !.dsg = unsignedMessageR1.val.dsg] IN
  IF fault = "serialize" THEN Raise(inited, "serialize")
  ELSE LET signedMessage ==
             EncryptAndAuthOutgoingMessages(unsignedMessageR1.val.msg, {},
                                            self.authKey, fault) IN
  IF ~signedMessage.ok THEN Raise(inited, "encrypt")
  ELSE LET f == FormatMessage(inited, signedMessage.val)
       IN Return(f.self, f.envelope)

\* initJoin(); fault names the collaborator call that throws, if one does
InitJoin(self, fault) ==
  IF ~(self.round = 0) THEN Raise(self, "started")
  ELSE LET unsignedMessageR1 == DsgInit(self.dsg, fault) IN
  IF ~unsignedMessageR1.ok THEN Raise(self, "engine")
  ELSE LET inited == [self EXCEPT !.dsg = unsignedMessageR1.val.dsg] IN
  IF fault = "serialize" THEN Raise(inited, "serialize")
  ELSE LET signedMessage ==
             EncryptAndAuthOutgoingMessages(unsignedMessageR1.val.msg, {},
                                            self.authKey, fault) IN
  IF ~signedMessage.ok THEN Raise(inited, "encrypt")
  ELSE LET f == FormatMessage(inited, signedMessage.val)
       IN Return(f.self, f.envelope)

NextRoundFaults ==
  { "none", "decrypt", "deserialize", "engine", "serialize", "encrypt" }

\* the assertions of nextRound without the one on partyId
NextRoundAssert_NoSelfCheck(self, prevRoundMessages) ==
  IF ~(self.round > 0) THEN "notStarted"
  ELSE IF ~(self.round < FinalRound) THEN "over"
  ELSE IF prevRoundMessages = NotArray THEN "notArray"
  ELSE IF ~(Len(prevRoundMessages) = self.minSigners - 1) THEN "notReady"
  ELSE IF ~(\A i \in 1 .. Len(prevRoundMessages) :
              prevRoundMessages[i].round = self.round - 1)
  THEN "wrongRound"
  ELSE "none"

\* the assertions of nextRound without round < 5
NextRoundAssert_NoOverCheck(self, prevRoundMessages) ==
  IF ~(self.round > 0) THEN "notStarted"
  ELSE IF prevRoundMessages = NotArray THEN "notArray"
  ELSE IF ~(Len(prevRoundMessages) = self.minSigners - 1) THEN "notReady"
  ELSE IF ~(\A i \in 1 .. Len(prevRoundMessages) :
              prevRoundMessages[i].round = self.round - 1)
  THEN "wrongRound"
  ELSE IF ~(\A i \in 1 .. Len(prevRoundMessages) :
              prevRoundMessages[i].partyId # self.partyId)
  THEN "fromSelf"
  ELSE "none"

\* the assertions of nextRound with msg.round === this.#round
NextRoundAssert_TagIsCurrentRound(self, prevRoundMessages) ==
  IF ~(self.round > 0) THEN "notStarted"
  ELSE IF ~(self.round < FinalRound) THEN "over"
  ELSE IF prevRoundMessages = NotArray THEN "notArray"
  ELSE IF ~(Len(prevRoundMessages) = self.minSigners - 1) THEN "notReady"
  ELSE IF ~(\A i \in 1 .. Len(prevRoundMessages) :
              prevRoundMessages[i].round = self.round)
  THEN "wrongRound"
  ELSE IF ~(\A i \in 1 .. Len(prevRoundMessages) :
              prevRoundMessages[i].partyId # self.partyId)
  THEN "fromSelf"
  ELSE "none"

\* the assertions of nextRound: the error of the first that fails, or "none"
NextRoundAssert(self, prevRoundMessages) ==
  IF ~(self.round > 0) THEN "notStarted"
  ELSE IF ~(self.round < FinalRound) THEN "over"
  ELSE IF prevRoundMessages = NotArray THEN "notArray"
  ELSE IF ~(Len(prevRoundMessages) = self.minSigners - 1) THEN "notReady"
  ELSE IF ~(\A i \in 1 .. Len(prevRoundMessages) :
              prevRoundMessages[i].round = self.round - 1)
  THEN "wrongRound"
  ELSE IF ~(\A i \in 1 .. Len(prevRoundMessages) :
              prevRoundMessages[i].partyId # self.partyId)
  THEN "fromSelf"
  ELSE "none"

\* nextRound formatting the envelope (round++) before it encrypts
NextRoundBody_FormatBeforeEncrypt(self, prevRoundMessages, fault) ==
  LET prevRndMsg ==
        DecryptAndVerifyIncomingMessages(prevRoundMessages, self.authKey, fault) IN
  IF ~prevRndMsg.ok THEN Raise(self, "decrypt")
  ELSE IF fault = "deserialize" THEN Raise(self, "deserialize")
  ELSE LET thisRoundMsg ==
             DsgHandleIncomingMessages(self.dsg, prevRndMsg.val, fault) IN
  IF ~thisRoundMsg.ok THEN Raise(self, "engine")
  ELSE LET handled == [self EXCEPT !.dsg = thisRoundMsg.val.dsg] IN
  IF fault = "serialize" THEN Raise(handled, "serialize")
  ELSE LET partyPubKeys == { prevRoundMessages[i].publicKey :
                               i \in 1 .. Len(prevRoundMessages) }
           signedMessage ==
             EncryptAndAuthOutgoingMessages(thisRoundMsg.val.msg, partyPubKeys,
                                            self.authKey, fault)
           f == FormatMessage(handled, signedMessage.val) IN
  IF ~signedMessage.ok THEN Raise(f.self, "encrypt")
  ELSE Return(f.self, f.envelope)

\* nextRound stepping the engine before it decrypts and verifies
NextRoundBody_EngineBeforeDecrypt(self, prevRoundMessages, fault) ==
  LET thisRoundMsg ==
        DsgHandleIncomingMessages(
          self.dsg,
          [i \in 1 .. Len(prevRoundMessages) |->
             [step |-> prevRoundMessages[i].payload.step]],
          fault) IN
  IF ~thisRoundMsg.ok THEN Raise(self, "engine")
  ELSE LET handled == [self EXCEPT !.dsg = thisRoundMsg.val.dsg]
           prevRndMsg ==
             DecryptAndVerifyIncomingMessages(prevRoundMessages, self.authKey, fault) IN
  IF ~prevRndMsg.ok THEN Raise(handled, "decrypt")
  ELSE IF fault = "deserialize" THEN Raise(handled, "deserialize")
  ELSE IF fault = "serialize" THEN Raise(handled, "serialize")
  ELSE LET partyPubKeys == { prevRoundMessages[i].publicKey :
                               i \in 1 .. Len(prevRoundMessages) }
           signedMessage ==
             EncryptAndAuthOutgoingMessages(thisRoundMsg.val.msg, partyPubKeys,
                                            self.authKey, fault) IN
  IF ~signedMessage.ok THEN Raise(handled, "encrypt")
  ELSE LET f == FormatMessage(handled, signedMessage.val)
       IN Return(f.self, f.envelope)

\* nextRound past its assertions: decrypt, deserialize, engine step,
\* serialize, encrypt, format
NextRoundBody(self, prevRoundMessages, fault) ==
  LET prevRndMsg ==
        DecryptAndVerifyIncomingMessages(prevRoundMessages, self.authKey, fault) IN
  IF ~prevRndMsg.ok THEN Raise(self, "decrypt")
  ELSE IF fault = "deserialize" THEN Raise(self, "deserialize")
  ELSE LET thisRoundMsg ==
             DsgHandleIncomingMessages(self.dsg, prevRndMsg.val, fault) IN
  IF ~thisRoundMsg.ok THEN Raise(self, "engine")
  ELSE LET handled == [self EXCEPT !.dsg = thisRoundMsg.val.dsg] IN
  IF fault = "serialize" THEN Raise(handled, "serialize")
  ELSE LET partyPubKeys == { prevRoundMessages[i].publicKey :
                               i \in 1 .. Len(prevRoundMessages) }
           signedMessage ==
             EncryptAndAuthOutgoingMessages(thisRoundMsg.val.msg, partyPubKeys,
                                            self.authKey, fault) IN
  IF ~signedMessage.ok THEN Raise(handled, "encrypt")
  ELSE LET f == FormatMessage(handled, signedMessage.val)
       IN Return(f.self, f.envelope)

\* nextRound(prevRoundMessages)
NextRound(self, prevRoundMessages, fault) ==
  IF NextRoundAssert(self, prevRoundMessages) # "none"
  THEN Raise(self, NextRoundAssert(self, prevRoundMessages))
  ELSE NextRoundBody(self, prevRoundMessages, fault)

GetSignatureFaults == { "none", "verify" }

\* getSignature() without the cache: verifies and converts on every call
GetSignature_NoCache(self, fault) ==
  IF ~IsSignatureReady(self) THEN Raise(self, "signatureNotReady")
  ELSE IF fault = "verify" \/ self.dsg.steps # FinalRound
  THEN Raise(self, "verify")
  ELSE LET signature == [r |-> "0xR", s |-> "0xS", v |-> 0,
                         pubKey |-> <<"pub">> \o self.derivationPath]
       IN Return([self EXCEPT !.signature = signature], signature)

\* getSignature() without the assertion that the signature is ready
GetSignature_NoReadyCheck(self, fault) ==
  IF self.signature # NoSignature THEN Return(self, self.signature)
  ELSE IF fault = "verify" \/ self.dsg.steps # FinalRound
  THEN Raise(self, "verify")
  ELSE LET signature == [r |-> "0xR", s |-> "0xS", v |-> 0,
                         pubKey |-> <<"pub">> \o self.derivationPath]
       IN Return([self EXCEPT !.signature = signature], signature)

\* getSignature()
GetSignature(self, fault) ==
  IF ~IsSignatureReady(self) THEN Raise(self, "signatureNotReady")
  ELSE IF self.signature # NoSignature THEN Return(self, self.signature)
  ELSE IF fault = "verify" \/ self.dsg.steps # FinalRound
  THEN Raise(self, "verify")
  ELSE LET signature == [r |-> "0xR", s |-> "0xS", v |-> 0,
                         pubKey |-> <<"pub">> \o self.derivationPath]
       IN Return([self EXCEPT !.signature = signature], signature)

-----------------------------------------------------------------------------
(* The network registry of bitcore-lib-doge (lib/networks.js): the list    *)
(* networks and the index networkMaps, from the string form of every       *)
(* scalar field value to the networks that have it. A registry is the      *)
(* record of the two, and of the Network objects constructed so far.       *)

\* field values: a type tag and the string form that indexes networkMaps
Str(s) == [t |-> "string", s |-> s]
Num(s) == [t |-> "number", s |-> s]
Obj(s) == [t |-> "object", s |-> s]
\* the function is (networks.js:56) that the module passes as data.is
IsFunction == [t |-> "function", s |-> "function is(str)"]
\* a field that data does not give (undefined)
Absent == [t |-> "undefined", s |-> "undefined"]
\* undefined as the result of get, and no keys argument
NoNetwork == [undefined |-> TRUE]
NoKeys == <<"undefined">>

\* the own properties of a Network object, in the order they are defined
NetworkFields ==
  <<"name", "alias", "is", "pubkeyhash", "privatekey", "scripthash",
    "xpubkey", "xprivkey", "networkMagic", "port", "dnsSeeds">>

IsNetwork(x) == "id" \in DOMAIN x
\* String(x), the property key x makes: Network.prototype.toString gives
\* the name, a scalar its string form whatever its type
Key(x) == IF IsNetwork(x) THEN x.name.s ELSE x.s

Range(list) == { list[i] : i \in 1 .. Len(list) }
\* list.indexOf(x), 1-based; 0 when x is not in the list
IndexOf(list, x) ==
  IF x \in Range(list)
  THEN CHOOSE i \in 1 .. Len(list) :
         list[i] = x /\ \A j \in 1 .. (i - 1) : list[j] # x
  ELSE 0
\* list.splice(i, 1)
Splice(list, i) == SubSeq(list, 1, i - 1) \o SubSeq(list, i + 1, Len(list))

\* get(arg, keys)
Get(reg, arg, keys) ==
  IF IsNetwork(arg) /\ arg \in Range(reg.networks) THEN arg
  ELSE IF keys # NoKeys
  THEN LET hits == { i \in 1 .. Len(reg.networks) :
                       \E k \in 1 .. Len(keys) : reg.networks[i][keys[k]] = arg }
       IN IF hits = {} THEN NoNetwork
          ELSE reg.networks[CHOOSE i \in hits : \A j \in hits : i <= j]
  ELSE IF Key(arg) \in DOMAIN reg.networkMaps /\ Len(reg.networkMaps[Key(arg)]) >= 1
  THEN reg.networkMaps[Key(arg)][1]
  ELSE NoNetwork

\* networkMaps[value].push(network), the array made first when there is none
MapPush(maps, value, network) ==
  [k \in DOMAIN maps \cup {Key(value)} |->
     IF k = Key(value)
     THEN (IF k \in DOMAIN maps THEN maps[k] ELSE <<>>) \o <<network>>
     ELSE maps[k]]

\* the loop over Object.values(network), from the i-th field on
RECURSIVE IndexValues(_, _, _)
IndexValues(maps, network, i) ==
  IF i > Len(NetworkFields) THEN maps
  ELSE LET value == network[NetworkFields[i]] IN
       IndexValues(IF value # Absent /\ value.t # "object"
                   THEN MapPush(maps, value, network) ELSE maps,
                   network, i + 1)

\* a value that an if takes for true
Truthy(v) ==
  /\ v # Absent
  /\ ~(v.t = "number" /\ v.s = "0")
  /\ ~(v.t = "string" /\ v.s = "")

\* new Network() with the properties addNetwork defines from data; id tells
\* the object from every other object
NewNetwork(id, data) ==
  [id |-> id,
   name |-> data.name,
   alias |-> data.alias,
   is |-> data.is,
   pubkeyhash |-> data.pubkeyhash,
   privatekey |-> data.privatekey,
   scripthash |-> data.scripthash,
   xpubkey |-> data.xpubkey,
   xprivkey |-> data.xprivkey,
   networkMagic |-> IF Truthy(data.networkMagic) THEN Obj(data.networkMagic.s)
                    ELSE Absent,
   port |-> IF Truthy(data.port) THEN data.port ELSE Absent,
   dnsSeeds |-> IF Truthy(data.dnsSeeds) THEN data.dnsSeeds ELSE Absent]

\* { ...data, variants: undefined, ...variant }
Merge(data, variant) ==
  [f \in DOMAIN data |->
     IF f \in DOMAIN variant THEN variant[f]
     ELSE IF f = "variants" THEN <<>>
     ELSE data[f]]

\* addNetwork(data): the registry afterwards, and the network returned
RECURSIVE AddNetwork(_, _)
RECURSIVE AddVariants(_, _, _)
AddNetwork(reg, data) ==
  LET network == NewNetwork(Len(reg.created) + 1, data)
      added == [networks |-> Append(reg.networks, network),
                networkMaps |-> IndexValues(reg.networkMaps, network, 1),
                created |-> Append(reg.created, network)]
  IN [reg |-> AddVariants(added, data, 1), val |-> network]

\* the loop over data.variants || [], from the i-th variant on
AddVariants(reg, data, i) ==
  IF i > Len(data.variants) THEN reg
  ELSE AddVariants(AddNetwork(reg, Merge(data, data.variants[i])).reg, data, i + 1)

\* the loop over networks of removeNetwork, from index i on: splice does not
\* step back, so the element after a removed one is not looked at
RECURSIVE RemoveLoop(_, _, _)
RemoveLoop(list, i, network) ==
  IF i > Len(list) THEN list
  ELSE RemoveLoop(IF list[i] = network THEN Splice(list, i) ELSE list,
                  i + 1, network)

\* removeNetwork(network): the registry afterwards
RemoveNetwork(reg, arg) ==
  LET network == IF IsNetwork(arg) THEN arg ELSE Get(reg, arg, NoKeys)
      spliced(k) == IF IndexOf(reg.networkMaps[k], network) > 0
                    THEN Splice(reg.networkMaps[k],
                                IndexOf(reg.networkMaps[k], network))
                    ELSE reg.networkMaps[k]
      keys == { k \in DOMAIN reg.networkMaps : Len(spliced(k)) > 0 }
  IN [networks |-> RemoveLoop(reg.networks, 1, network),
      networkMaps |-> [k \in keys |-> spliced(k)],
      created |-> reg.created]

\* the addNetwork calls the module makes when it is loaded
LivenetData ==
  [name |-> Str("livenet"), alias |-> Str("mainnet"), is |-> IsFunction,
   pubkeyhash |-> Num("30"), privatekey |-> Num("158"), scripthash |-> Num("22"),
   xpubkey |-> Num("76067358"), xprivkey |-> Num("76066276"),
   networkMagic |-> Num("3233857728"), port |-> Num("22556"),
   dnsSeeds |-> Obj("seeds"), variants |-> <<>>]
TestnetData ==
  [name |-> Str("testnet"), alias |-> Str("testnet"), is |-> IsFunction,
   pubkeyhash |-> Num("113"), privatekey |-> Num("241"), scripthash |-> Num("196"),
   xpubkey |-> Num("70617039"), xprivkey |-> Num("70615956"),
   networkMagic |-> Num("4240553948"), port |-> Num("44556"),
   dnsSeeds |-> Obj("testseeds"),
   variants |-> << [name |-> Str("testnet3"), networkMagic |-> Num("4240553948"),
                    port |-> Num("44556"), dnsSeeds |-> Obj("testseeds")] >>]
RegtestData ==
  [name |-> Str("regtest"), alias |-> Str("dev"), is |-> IsFunction,
   pubkeyhash |-> Num("111"), privatekey |-> Num("239"), scripthash |-> Num("196"),
   xpubkey |-> Num("70617039"), xprivkey |-> Num("70615956"),
   networkMagic |-> Num("4206867930"), port |-> Num("18444"),
   dnsSeeds |-> Obj("noseeds"), variants |-> <<>>]

NoNetworks == [networks |-> <<>>, networkMaps |-> <<>>, created |-> <<>>]
\* the registry once the module is loaded
Loaded ==
  AddNetwork(AddNetwork(AddNetwork(NoNetworks, LivenetData).reg,
                        TestnetData).reg,
             RegtestData).reg

-----------------------------------------------------------------------------
(* The state machine: a ceremony of n parties, one session each, driven by *)
(* a caller that makes one call at a time.                                 *)

NoCall == [op |-> "none", slot |-> 0, ok |-> TRUE, err |-> "none"]
Call(op, s, r) == [op |-> op, slot |-> s, ok |-> r.ok, err |-> r.err]
\* no initJoin invocation in flight; the module networks.js, which sign.js
\* does not import, not loaded
Idle ==
  /\ calls = [s \in Slots |-> <<>>]
  /\ networks = NoNetworks.networks
  /\ networkMaps = NoNetworks.networkMaps
  /\ created = NoNetworks.created

NoHistory == [joins |-> 0, advances |-> 0, fed |-> 0, reads |-> 0]

\* new Sign({...}) of party p in a ceremony, with no round argument
NewSession(cfg, path, p) ==
  Constructor([keychain |-> Keychain(p), partyId |-> p, n |-> cfg.n, m |-> cfg.m,
               derivationPath |-> path, messageHash |-> ZeroHash,
               authKey |-> AuthKeyOf(p), round |-> NoNumber])

\* the sessions of a ceremony, slot p + 1 for party p
Ceremony(cfg, path) ==
  [s \in Slots |-> IF s <= cfg.n THEN NewSession(cfg, path, s - 1).val
                   ELSE NoSession]

Init ==
  /\ \E cfg \in Configs, path \in Paths : sess = Ceremony(cfg, path)
  /\ out = [s \in Slots |-> <<>>]
  /\ last = NoCall
  /\ hist = [s \in Slots |-> NoHistory]
  /\ pair = {}
  /\ Idle

Live == { s \in Slots : sess[s] # NoSession }

\* the envelopes of session s a caller holds
Kept(s) ==
  SubSeq(out[s], IF Len(out[s]) > MaxKept THEN Len(out[s]) - MaxKept + 1 ELSE 1,
         Len(out[s]))
RECURSIVE KeptUpTo(_)
KeptUpTo(s) == IF s = 0 THEN <<>> ELSE KeptUpTo(s - 1) \o Kept(s)
Envelopes == KeptUpTo(RestoreSlot)

\* the arrays a caller can pass, one for each choice of up to MaxLen held
\* envelopes (nextRound reads the array with every and map, so the order of
\* the elements makes no difference to it)
Choices(k) ==
  { f \in [1 .. k -> 1 .. Len(Envelopes)] :
      \A i \in 1 .. (k - 1) : f[i] <= f[i + 1] }
Arrays ==
  UNION { { [i \in 1 .. k |-> Envelopes[f[i]]] : f \in Choices(k) } :
          k \in 0 .. MaxLen }

\* a call of initJoin() on session s
InitJoinCall(s, fault) ==
  LET r == InitJoin(sess[s], fault) IN
  /\ sess' = [sess EXCEPT ![s] = r.self]
  /\ out' = IF r.ok THEN [out EXCEPT ![s] = Append(@, r.val)] ELSE out
  /\ last' = Call("initJoin", s, r)
  /\ hist' = IF r.ok THEN [hist EXCEPT ![s].joins = @ + 1] ELSE hist
  /\ UNCHANGED <<pair, calls, registry>>

\* a call of nextRound(msgs) on session s
NextRoundCall(s, msgs, fault) ==
  LET r == NextRound(sess[s], msgs, fault) IN
  /\ sess' = [sess EXCEPT ![s] = r.self]
  /\ out' = IF r.ok THEN [out EXCEPT ![s] = Append(@, r.val)] ELSE out
  /\ last' = Call("nextRound", s, r)
  /\ hist' = IF r.ok THEN [hist EXCEPT ![s].advances = @ + 1] ELSE hist
  /\ UNCHANGED <<pair, calls, registry>>

\* a call of isSignatureReady() on session s
IsSignatureReadyCall(s) ==
  /\ last' = [op |-> "isSignatureReady", slot |-> s,
              ok |-> IsSignatureReady(sess[s]), err |-> "none"]
  /\ UNCHANGED <<sess, out, hist, pair, calls, registry>>

\* a call of getSignature() on session s
GetSignatureCall(s, fault) ==
  LET r == GetSignature(sess[s], fault) IN
  /\ sess' = [sess EXCEPT ![s] = r.self]
  /\ last' = Call("getSignature", s, r)
  /\ hist' = IF r.ok /\ hist[s].reads < MaxReads
             THEN [hist EXCEPT ![s].reads = @ + 1] ELSE hist
  /\ UNCHANGED <<out, pair, calls, registry>>

\* a call of export() on session s
ExportCall(s) ==
  LET r == Export(sess[s]) IN
  /\ sess' = [sess EXCEPT ![s] = r.self]
  /\ last' = Call("export", s, r)
  /\ UNCHANGED <<out, hist, pair, calls, registry>>

\* the strings a caller can pass to restore: what export() returns now
Records == { Export(sess[s]).val : s \in { t \in Live : Export(sess[t]).ok } }

\* a call of Sign.restore(session) by party p; the session it returns takes
\* the restore slot
RestoreCall(session, p) ==
  /\ sess[RestoreSlot] = NoSession
  /\ LET r == Restore(session, Keychain(p), AuthKeyOf(p)) IN
       /\ sess' = IF r.ok THEN [sess EXCEPT ![RestoreSlot] = r.val] ELSE sess
       /\ last' = [op |-> "restore", slot |-> RestoreSlot, ok |-> r.ok, err |-> r.err]
  /\ UNCHANGED <<out, hist, pair, calls, registry>>

\* the collaborator calls an invocation gets to: a call that throws on one of
\* its own assertions makes none, so nothing else can throw in it
Faults(asserted, faults) == IF asserted THEN {"none"} ELSE faults
Asserts == { "started", "notStarted", "over", "notArray", "notReady",
             "wrongRound", "fromSelf", "signatureNotReady" }

Next ==
  \/ \E s \in Live :
       \E fault \in Faults(InitJoin(sess[s], "none").err \in Asserts, InitJoinFaults) :
         InitJoinCall(s, fault)
  \/ \E s \in Live, msgs \in Arrays \cup {NotArray} :
       \E fault \in Faults(NextRound(sess[s], msgs, "none").err \in Asserts,
                          NextRoundFaults) :
         NextRoundCall(s, msgs, fault)
  \/ \E s \in Live : IsSignatureReadyCall(s)
  \/ \E s \in Live :
       \E fault \in Faults(GetSignature(sess[s], "none").err \in Asserts,
                          GetSignatureFaults) :
         GetSignatureCall(s, fault)
  \/ \E s \in Live : ExportCall(s)

Spec == Init /\ [][Next]_vars

-----------------------------------------------------------------------------
(* Sessions that are exported and restored: the round-advance calls, none  *)
(* of them met by a throwing collaborator, export and Sign.restore.        *)

InitRestore ==
  /\ \E cfg \in Configs : sess = Ceremony(cfg, <<"m", "/", "0">>)
  /\ out = [s \in Slots |-> <<>>]
  /\ last = NoCall
  /\ hist = [s \in Slots |-> NoHistory]
  /\ pair = {}
  /\ Idle

NextRestore ==
  \/ \E s \in Live : InitJoinCall(s, "none")
  \/ \E s \in Live, msgs \in Arrays \cup {NotArray} : NextRoundCall(s, msgs, "none")
  \/ \E s \in Live : ExportCall(s)
  \/ \E session \in Records, p \in Parties : RestoreCall(session, p)

SpecRestore == InitRestore /\ [][NextRestore]_vars

-----------------------------------------------------------------------------
(* The end-to-end scenario: three parties, two signers. Every session      *)
(* calls initJoin; two of them then exchange envelopes, each call of       *)
(* nextRound given the envelope its peer returned in the step before.      *)

InitE2E ==
  /\ \E path \in Paths : sess = Ceremony(EndToEnd, path)
  /\ out = [s \in Slots |-> <<>>]
  /\ last = NoCall
  /\ hist = [s \in Slots |-> NoHistory]
  /\ \E a, b \in 1 .. EndToEnd.n : a < b /\ pair = {a, b}
  /\ Idle

\* the scenario's call of initJoin() on session s
JoinE2E(s) ==
  /\ hist[s].joins = 0
  /\ InitJoinCall(s, "none")

\* the scenario's next call of nextRound on session a: a has made k such
\* calls, its peer b has returned k + 1 envelopes, and a is given the last
ExchangeE2E(a, b) ==
  /\ pair = {a, b} /\ a # b
  /\ hist[a].joins = 1
  /\ hist[a].fed < MaxExchanges
  /\ Len(out[b]) > hist[a].fed
  /\ LET r == NextRound(sess[a], <<out[b][hist[a].fed + 1]>>, "none") IN
       /\ sess' = [sess EXCEPT ![a] = r.self]
       /\ out' = IF r.ok THEN [out EXCEPT ![a] = Append(@, r.val)] ELSE out
       /\ last' = Call("nextRound", a, r)
       /\ hist' = [hist EXCEPT ![a].fed = @ + 1,
                               ![a].advances = IF r.ok THEN @ + 1 ELSE @]
  /\ UNCHANGED <<pair, calls, registry>>

NextE2E ==
  \/ \E s \in Live : JoinE2E(s)
  \/ \E a, b \in Live : ExchangeE2E(a, b)

SpecE2E == InitE2E /\ [][NextE2E]_vars

-----------------------------------------------------------------------------
(* Construction: one call of new Sign(params), its arguments drawn from    *)
(* well-formed and ill-formed values; the object it returns takes slot 1.  *)

\* numbers given as partyId, n and m
Numbers == (0 - 1) .. (MaxN + 1)
\* a buffer one byte short of a message hash
ShortHash == [len |-> HashLen - 1, data |-> "zero"]
\* derivationPath arguments: the ceremonies' paths, '' and 'x'
NewPaths == Paths \cup { <<>>, <<"x">> }
\* the slot the constructed object takes
NewSlot == 1

Params ==
  [keychain : {Keychain(0), NoKeychain},
   partyId : Numbers,
   n : Numbers \cup {NoNumber},
   m : Numbers,
   derivationPath : NewPaths,
   messageHash : {ZeroHash, ShortHash},
   authKey : {AuthKeyOf(0), NoNumber},
   round : {NoNumber, FinalRound - 2}]

InitNew ==
  /\ sess = [s \in Slots |-> NoSession]
  /\ out = [s \in Slots |-> <<>>]
  /\ last = NoCall
  /\ hist = [s \in Slots |-> NoHistory]
  /\ pair = {}
  /\ Idle

\* the call new Sign(p)
NewCall(p) ==
  /\ LET r == Constructor(p) IN
       /\ sess' = IF r.ok THEN [sess EXCEPT ![NewSlot] = r.val] ELSE sess
       /\ last' = [op |-> "new", slot |-> NewSlot, ok |-> r.ok, err |-> r.err,
                   params |-> p]
  /\ UNCHANGED <<out, hist, pair, calls, registry>>

\* one constructor call is made
NextNew == last = NoCall /\ \E p \in Params : NewCall(p)

SpecNew == InitNew /\ [][NextNew]_vars

-----------------------------------------------------------------------------
(* The registry in use: add, remove and get calls on the loaded module.    *)
(* Lookup values are values of the types the fields have, and none of them *)
(* names a property of Object.prototype.                                   *)

\* data of the networks a caller adds: one with a name and an alias of its
\* own, one whose name is its alias, one that shares a value with livenet
\* and brings a variant
CustomData ==
  { [name |-> Str("custom"), alias |-> Str("mine"), is |-> Absent,
     pubkeyhash |-> Num("7"), privatekey |-> Absent, scripthash |-> Absent,
     xpubkey |-> Absent, xprivkey |-> Absent, networkMagic |-> Absent,
     port |-> Num("0"), dnsSeeds |-> Absent, variants |-> <<>>],
    [name |-> Str("solo"), alias |-> Str("solo"), is |-> Absent,
     pubkeyhash |-> Num("8"), privatekey |-> Absent, scripthash |-> Absent,
     xpubkey |-> Absent, xprivkey |-> Absent, networkMagic |-> Absent,
     port |-> Absent, dnsSeeds |-> Absent, variants |-> <<>>],
    [name |-> Str("fork"), alias |-> Str("mainnet"), is |-> Absent,
     pubkeyhash |-> Num("30"), privatekey |-> Absent, scripthash |-> Absent,
     xpubkey |-> Absent, xprivkey |-> Absent, networkMagic |-> Num("1"),
     port |-> Num("22556"), dnsSeeds |-> Absent,
     variants |-> << [name |-> Str("fork2")] >>] }

Registry == [networks |-> networks, networkMaps |-> networkMaps, created |-> created]

\* the scalar field values of a network object
ValuesOf(network) ==
  { network[NetworkFields[i]] : i \in 1 .. Len(NetworkFields) }
    \ { v \in { network[NetworkFields[i]] : i \in 1 .. Len(NetworkFields) } :
          v = Absent \/ v.t \in {"object", "function"} }
\* lookup values: the scalar values of the network objects, and one that no
\* network has
LookupValues ==
  UNION { ValuesOf(created[i]) : i \in 1 .. Len(created) } \cup { Str("nowhere") }
\* keys arguments of get
KeysArgs == { NoKeys, <<"name", "alias">> }

\* the module networks.js loaded, and no Sign object
InitNet ==
  /\ sess = [s \in Slots |-> NoSession]
  /\ out = [s \in Slots |-> <<>>]
  /\ last = NoCall
  /\ hist = [s \in Slots |-> NoHistory]
  /\ pair = {}
  /\ calls = [s \in Slots |-> <<>>]
  /\ networks = Loaded.networks
  /\ networkMaps = Loaded.networkMaps
  /\ created = Loaded.created

\* a call of addNetwork(data)
AddNetworkCall(data) ==
  /\ Len(created) + 1 + Len(data.variants) <= MaxNetworks
  /\ LET r == AddNetwork(Registry, data) IN
       /\ networks' = r.reg.networks
       /\ networkMaps' = r.reg.networkMaps
       /\ created' = r.reg.created
       /\ last' = [op |-> "add", slot |-> 0, ok |-> TRUE, err |-> "none",
                   network |-> r.val]
  /\ UNCHANGED <<sess, out, hist, pair, calls>>

\* a call of removeNetwork(arg); network is the object it removes
RemoveNetworkCall(arg) ==
  /\ LET r == RemoveNetwork(Registry, arg) IN
       /\ networks' = r.networks
       /\ networkMaps' = r.networkMaps
       /\ created' = r.created
  /\ last' = [op |-> "remove", slot |-> 0, ok |-> TRUE, err |-> "none",
              network |-> IF IsNetwork(arg) THEN arg ELSE Get(Registry, arg, NoKeys)]
  /\ UNCHANGED <<sess, out, hist, pair, calls>>

\* a call of get(arg, keys)
GetCall(arg, keys) ==
  /\ last' = [op |-> "get", slot |-> 0, ok |-> TRUE, err |-> "none",
              network |-> Get(Registry, arg, keys)]
  /\ UNCHANGED <<sess, out, hist, pair, calls, registry>>

NextNet ==
  \/ \E data \in CustomData : AddNetworkCall(data)
  \/ \E arg \in Range(created) \cup LookupValues : RemoveNetworkCall(arg)
  \/ \E arg \in Range(created) \cup LookupValues, keys \in KeysArgs : GetCall(arg, keys)

SpecNet == InitNet /\ [][NextNet]_vars

-----------------------------------------------------------------------------
(* Overlapping initJoin invocations. initJoin is an async function: it     *)
(* runs to its first await (the promise of dsg.init()), is resumed to run  *)
(* to its second (the promise of encryptAndAuthOutgoingMessages), and is   *)
(* resumed again to format the envelope. A caller that does not await the  *)
(* promise it got can start another invocation in between. What the engine *)
(* does with an init() called while an earlier init() is pending is not    *)
(* fixed by anything in sign.js: it takes the call or throws.              *)

\* an invocation suspended at an await, and one that has settled
Suspended(at, msg) == [pc |-> at, msg |-> msg]
Settled(r) == [pc |-> IF r.ok THEN "returned" ELSE "thrown", msg |-> [step |-> 0]]

\* initJoin() up to its first await: the assertion, and the call of init()
InitJoinStart(self, pending, accept) ==
  IF ~(self.round = 0) THEN Raise(self, "started")
  ELSE IF ~DsgInit(self.dsg, "none").ok \/ (pending /\ ~accept)
  THEN Raise(self, "engine")
  ELSE Return(self, Suspended("init", DsgInit(self.dsg, "none").val.msg))

\* initJoin() resumed with the message of init(), up to its second await:
\* the engine is initialised; serialization, and the call of encrypt
InitJoinAfterInit(self, unsignedMessageR1) ==
  LET inited == [self EXCEPT !.dsg = DsgInit(NewDsg, "none").val.dsg]
      signedMessage ==
        EncryptAndAuthOutgoingMessages(unsignedMessageR1, {}, self.authKey, "none")
  IN Return(inited, Suspended("encrypt", signedMessage.val))

\* initJoin() resumed with the signed message: the envelope is formatted
InitJoinAfterEncrypt(self, signedMessage) ==
  LET f == FormatMessage(self, signedMessage)
  IN Return(f.self, f.envelope)

InitOverlap ==
  /\ \E cfg \in Configs, path \in Paths : sess = Ceremony(cfg, path)
  /\ out = [s \in Slots |-> <<>>]
  /\ last = NoCall
  /\ hist = [s \in Slots |-> NoHistory]
  /\ pair = {}
  /\ Idle

\* a caller starts initJoin() on session s
StartInitJoin(s, accept) ==
  /\ Len(calls[s]) < MaxOverlap
  /\ LET pending == \E i \in 1 .. Len(calls[s]) : calls[s][i].pc = "init"
         r == InitJoinStart(sess[s], pending, accept)
     IN /\ calls' = [calls EXCEPT ![s] = Append(@, IF r.ok THEN r.val ELSE Settled(r))]
        /\ last' = IF r.ok THEN last ELSE Call("initJoin", s, r)
  /\ UNCHANGED <<sess, out, hist, pair, registry>>

\* the i-th invocation on session s is resumed from await dsg.init()
ResumeAfterInit(s, i) ==
  /\ i \in 1 .. Len(calls[s]) /\ calls[s][i].pc = "init"
  /\ LET r == InitJoinAfterInit(sess[s], calls[s][i].msg)
     IN /\ sess' = [sess EXCEPT ![s] = r.self]
        /\ calls' = [calls EXCEPT ![s][i] = r.val]
  /\ UNCHANGED <<out, last, hist, pair, registry>>

\* the i-th invocation on session s is resumed from await encrypt..., and
\* returns its envelope
ResumeAfterEncrypt(s, i) ==
  /\ i \in 1 .. Len(calls[s]) /\ calls[s][i].pc = "encrypt"
  /\ LET r == InitJoinAfterEncrypt(sess[s], calls[s][i].msg)
     IN /\ sess' = [sess EXCEPT ![s] = r.self]
        /\ calls' = [calls EXCEPT ![s][i] = Settled(r)]
        /\ out' = [out EXCEPT ![s] = Append(@, r.val)]
        /\ last' = Call("initJoin", s, r)
        /\ hist' = [hist EXCEPT ![s].joins = @ + 1]
  /\ UNCHANGED <<pair, registry>>

NextOverlap ==
  \/ \E s \in Live, accept \in BOOLEAN : StartInitJoin(s, accept)
  \/ \E s \in Live, i \in 1 .. MaxOverlap : ResumeAfterInit(s, i)
  \/ \E s \in Live, i \in 1 .. MaxOverlap : ResumeAfterEncrypt(s, i)

SpecOverlap == InitOverlap /\ [][NextOverlap]_vars

-----------------------------------------------------------------------------
(* Properties.                                                             *)

RoundAdvances == { "initJoin", "nextRound" }
\* the step is a call of one of ops on session s
Called(s, ops) == last'.slot = s /\ last'.op \in ops

\* C1: every successful initJoin or nextRound call increases round by
\* exactly 1, and round changes in no other call (export, isSignatureReady,
\* getSignature, or a call that fails).
C1_RoundAdvancesByOne ==
  [][\A s \in Live :
       /\ (Called(s, RoundAdvances) /\ last'.ok)
            => sess'[s].round = sess[s].round + 1
       /\ (sess'[s].round # sess[s].round)
            => (Called(s, RoundAdvances) /\ last'.ok)]_vars

\* a nextRound call has just succeeded and taken its session past round 1
C1_Witness ==
  /\ last.op = "nextRound" /\ last.ok
  /\ sess[last.slot].round = 3

\* the input is no array of exactly m - 1 envelopes, or holds an envelope
\* of another round than round - 1, or one of the session's own party
BadQuorum(self, msgs) ==
  IF msgs = NotArray THEN TRUE
  ELSE \/ Len(msgs) # self.minSigners - 1
       \/ \E i \in 1 .. Len(msgs) : msgs[i].round # self.round - 1
       \/ \E i \in 1 .. Len(msgs) : msgs[i].partyId = self.partyId

\* C2: on a session with 1 <= round < 5, nextRound fails and leaves round
\* unchanged whenever its input is not an array of exactly m - 1 envelopes,
\* or holds an envelope whose round is not round - 1, or one whose partyId
\* is the session's own.
C2_NextRoundRejectsBadQuorum ==
  \A s \in Live, msgs \in Arrays \cup {NotArray}, fault \in NextRoundFaults :
    (sess[s].round >= 1 /\ sess[s].round < FinalRound /\ BadQuorum(sess[s], msgs))
      => /\ ~NextRound(sess[s], msgs, fault).ok
         /\ NextRound(sess[s], msgs, fault).self.round = sess[s].round

\* a nextRound call given the session's own envelope has just been rejected
C2_Witness ==
  /\ last.op = "nextRound" /\ ~last.ok /\ last.err = "fromSelf"
  /\ sess[last.slot].round >= 1 /\ sess[last.slot].round < FinalRound

\* the fields that export writes and restore reads back
SameFields(a, b) ==
  /\ a.round = b.round
  /\ a.partyId = b.partyId
  /\ a.partySize = b.partySize
  /\ a.minSigners = b.minSigners
  /\ a.derivationPath = b.derivationPath
  /\ a.messageHash = b.messageHash

\* C3: for every session at a round where export is allowed, restore of its
\* export with the same identity key and key share yields a session with
\* the same round, partyId, partySize, minSigners, derivationPath and
\* messageHash, and an engine hydrated from the exported session bytes.
C3_ExportRestoreRoundTrip ==
  \A s \in Live :
    Export(sess[s]).ok =>
      LET restored == Restore(Export(sess[s]).val, sess[s].keychain, sess[s].authKey)
      IN /\ restored.ok
         /\ SameFields(restored.val, sess[s])
         /\ restored.val.dsg = DsgSetSession(NewDsg, DsgSessionBytes(sess[s].dsg)).val

\* the scenario's sessions, and the number of their nextRound calls that
\* the protocol has room for
Signers == { s \in Live : s \in pair }
RoundsAfterJoin == FinalRound - 1

\* C4: in the end-to-end scenario the first exchange and the 4
\* further ones (5 nextRound calls of each signer) all succeed, and the
\* signers end at round 5.
C4_FiveExchangesSucceed ==
  \A s \in Signers :
    /\ hist[s].fed <= 5 => hist[s].advances = hist[s].fed
    /\ hist[s].fed = 5 => sess[s].round = FinalRound

\* C4 (four calls): in the end-to-end scenario the first exchange and the 3
\* further ones (4 nextRound calls of each signer) all succeed, each taking
\* round up by 1, and leave the signer at round 5 with isSignatureReady()
\* true; a nextRound call after them fails and leaves round at 5.
C4_FourExchangesComplete ==
  \A s \in Signers :
    /\ hist[s].fed <= RoundsAfterJoin
         => /\ hist[s].advances = hist[s].fed
            /\ sess[s].round = hist[s].joins + hist[s].fed
    /\ hist[s].fed >= RoundsAfterJoin
         => /\ hist[s].advances = RoundsAfterJoin
            /\ sess[s].round = FinalRound
            /\ IsSignatureReady(sess[s])

\* both signers have made their 4 calls, the third party only initJoin
C4_Witness ==
  /\ \A s \in Signers : hist[s].fed = RoundsAfterJoin /\ sess[s].round = FinalRound
  /\ Cardinality(Signers) = 2
  /\ \E t \in Live \ Signers : sess[t].round = 1

InRange(self) == self.round \in 0 .. FinalRound

\* C5: in every state of a session, made by the constructor or by restore
\* and driven by any calls, round is an integer in 0 .. 5, and no call
\* makes it smaller.
C5_RoundBoundedMonotonic ==
  [][\A s \in Slots :
       /\ sess[s] # NoSession => InRange(sess[s])
       /\ sess'[s] # NoSession => InRange(sess'[s])
       /\ sess[s] # NoSession
            => sess'[s] # NoSession /\ sess'[s].round >= sess[s].round]_vars

\* a restored session has been driven to the last round
C5_Witness ==
  /\ sess[RestoreSlot] # NoSession
  /\ sess[RestoreSlot].round = FinalRound
  /\ hist[RestoreSlot].advances >= 1

\* C6: initJoin succeeds only at round 0; at most one initJoin call on a
\* session succeeds; every initJoin call after it fails on the round
\* assertion and changes nothing.
C6_InitJoinOnce ==
  [][\A s \in Live :
       /\ hist'[s].joins <= 1
       /\ Called(s, {"initJoin"}) =>
            /\ last'.ok => sess[s].round = 0 /\ hist[s].joins = 0
            /\ (hist[s].joins >= 1 \/ sess[s].round # 0)
                 => ~last'.ok /\ last'.err = "started" /\ sess'[s] = sess[s]]_vars

\* an initJoin call has just failed on a session that had joined
C6_Witness ==
  /\ last.op = "initJoin" /\ ~last.ok
  /\ hist[last.slot].joins = 1

\* C7: nextRound fails at round 0 and at round 5 whatever it is given, on
\* the assertion about round, and changes neither round nor the engine.
C7_NextRoundOnlyInRounds ==
  [][\A s \in Live :
       (Called(s, {"nextRound"}) /\ sess[s].round \in {0, FinalRound})
         => /\ ~last'.ok
            /\ last'.err = (IF sess[s].round = 0 THEN "notStarted" ELSE "over")
            /\ sess'[s] = sess[s]]_vars

\* a nextRound call on a completed session has just failed
C7_Witness ==
  /\ last.op = "nextRound" /\ ~last.ok
  /\ sess[last.slot].round = FinalRound
  /\ Len(out[last.slot]) = FinalRound

\* C8: an initJoin or nextRound call that throws, at whatever step, leaves
\* round as it was before the call.
C8_FailedAdvanceKeepsRound ==
  [][\A s \in Live :
       (Called(s, RoundAdvances) /\ ~last'.ok)
         => sess'[s].round = sess[s].round]_vars

\* a nextRound call has just failed in the outgoing encryption, after the
\* engine step
C8_Witness ==
  /\ last.op = "nextRound" /\ ~last.ok /\ last.err = "encrypt"
  /\ sess[last.slot].dsg.steps > sess[last.slot].round

\* C9: between calls, the number of engine steps applied (init, then one
\* handleIncomingMessages a round) equals round.
C9_RoundAgreesWithEngine ==
  \A s \in Live : sess[s].dsg.steps = sess[s].round

\* C10: export fails at round 0 and at round 5, succeeds only for
\* 0 < round < 5, and changes no field of the session whether it succeeds
\* or fails.
C10_ExportOnlyMidProtocol ==
  [][\A s \in Live :
       Called(s, {"export"}) =>
         /\ sess[s].round \in {0, FinalRound} => ~last'.ok
         /\ last'.ok => (sess[s].round > 0 /\ sess[s].round < FinalRound)
         /\ sess' = sess
         /\ out' = out]_vars

\* an export call on a completed session has just failed
C10_Witness ==
  /\ last.op = "export" /\ ~last.ok
  /\ sess[last.slot].round = FinalRound

\* C11: isSignatureReady() returns true exactly when round is 5; a
\* getSignature call at any other round fails on its assertion and changes
\* nothing; no session below round 5 holds a signature.
C11_SignatureOnlyAtFinalRound ==
  [][\A s \in Live :
       /\ Called(s, {"isSignatureReady"}) => (last'.ok <=> sess[s].round = FinalRound)
       /\ (Called(s, {"getSignature"}) /\ sess[s].round # FinalRound)
            => /\ ~last'.ok /\ last'.err = "signatureNotReady"
               /\ sess' = sess
       /\ sess'[s].round # FinalRound => sess'[s].signature = NoSignature]_vars

\* a getSignature call has just failed on a session in the middle of the
\* rounds, whose engine is already past its last step
C11_Witness ==
  /\ last.op = "getSignature" /\ ~last.ok
  /\ sess[last.slot].round = FinalRound - 1
  /\ sess[last.slot].dsg.steps = FinalRound

\* C12: once a getSignature call has succeeded, every later getSignature
\* call succeeds and returns the cached value without running the
\* verify-and-convert step (a step that throws cannot make it fail), and the
\* cached signature is never replaced.
C12_GetSignatureIdempotent ==
  [][\A s \in Live :
       /\ hist[s].reads >= 1 <=> sess[s].signature # NoSignature
       /\ hist[s].reads >= 1 =>
            /\ sess'[s].signature = sess[s].signature
            /\ \A fault \in GetSignatureFaults :
                 GetSignature(sess[s], fault) = Return(sess[s], sess[s].signature)
            /\ Called(s, {"getSignature"}) => last'.ok /\ sess' = sess]_vars

\* a second getSignature call has just succeeded
C12_Witness ==
  /\ last.op = "getSignature" /\ last.ok
  /\ hist[last.slot].reads >= 2

\* arguments that are well formed but for partyId, n and m: a key share, a
\* 32-byte hash, an identity key, an accepted path and no round
WellFormed(p) ==
  /\ p.keychain # NoKeychain /\ p.messageHash = ZeroHash /\ p.authKey \in Keys
  /\ p.round = NoNumber
  /\ (p.derivationPath = Undefined \/ StartsWithM(p.derivationPath))

\* C13: with well-formed other arguments, new Sign succeeds for every n > 1,
\* 1 <= m <= n and 0 <= partyId < n, and the session starts at round 0; it
\* fails whenever partyId is outside [0, n), n <= 1 or m is outside [1, n].
C13_ConstructorValidatesSizes ==
  last.op = "new" =>
    LET p == last.params
        inRange == /\ p.n > 1 /\ 1 <= p.m /\ p.m <= p.n
                   /\ 0 <= p.partyId /\ p.partyId < p.n
    IN /\ (WellFormed(p) /\ inRange)
            => /\ last.ok
               /\ sess[NewSlot] # NoSession
               /\ sess[NewSlot].round = 0
               /\ sess[NewSlot].partySize = p.n
               /\ sess[NewSlot].minSigners = p.m
               /\ sess[NewSlot].partyId = p.partyId
       /\ ~inRange => ~last.ok /\ sess[NewSlot] = NoSession

\* the last party of a 2-of-3 ceremony has been constructed
C13_Witness ==
  /\ last.op = "new" /\ last.ok
  /\ last.params.n = MaxN /\ last.params.m = MaxN - 1
  /\ last.params.partyId = MaxN - 1
  /\ sess[NewSlot].round = 0

\* arguments that are well formed but for derivationPath
WellFormedButPath(p) ==
  /\ p.keychain # NoKeychain /\ p.messageHash = ZeroHash /\ p.authKey \in Keys
  /\ p.round = NoNumber
  /\ p.n > 1 /\ 1 <= p.m /\ p.m <= p.n /\ 0 <= p.partyId /\ p.partyId < p.n

\* C14: the constructor, given a falsy derivation path, be it absent or the
\* empty string, succeeds and falls back to the root path 'm'.
C14_FalsyPathFallsBack ==
  (last.op = "new" /\ WellFormedButPath(last.params)
                   /\ Falsy(last.params.derivationPath))
    => /\ last.ok
       /\ sess[NewSlot] # NoSession
       /\ sess[NewSlot].derivationPath = <<"m">>

\* C14 (absent path only): the constructor, given no derivation path, falls
\* back to the root path 'm'; given the empty string it throws on the
\* assertion about derivationPath and constructs nothing.
C14_AbsentPathFallsBack ==
  (last.op = "new" /\ WellFormedButPath(last.params))
    => /\ last.params.derivationPath = Undefined
            => /\ last.ok
               /\ sess[NewSlot] # NoSession
               /\ sess[NewSlot].derivationPath = <<"m">>
       /\ last.params.derivationPath = <<>>
            => /\ ~last.ok /\ last.err = "derivationPath"
               /\ sess[NewSlot] = NoSession

\* a constructor call given the empty string has just thrown
C14_Witness ==
  /\ last.op = "new" /\ ~last.ok
  /\ WellFormedButPath(last.params)
  /\ last.params.derivationPath = <<>>

\* the envelopes of msgs, each encrypted for the holder of key k alone
Readdressed(msgs, k) ==
  [i \in 1 .. Len(msgs) |-> [msgs[i] EXCEPT !.payload.to = {PublicKey(k)}]]

\* C15: restore of an export record under an identity key other than the
\* one it was exported under throws the decryption error and returns no
\* session; nextRound, given envelopes that pass its assertions but do not
\* decrypt and verify under the session's key, throws the decryption error
\* with the engine and round as they were.
C15_WrongKeyFails ==
  /\ \A s \in Live, k \in Keys, p \in Parties :
       (Export(sess[s]).ok /\ k # sess[s].authKey)
         => Restore(Export(sess[s]).val, Keychain(p), k) = Throw("decrypt")
  /\ (last.op = "restore" /\ ~last.ok) => sess[RestoreSlot] = NoSession
  /\ \A s \in Live, msgs \in Arrays :
       NextRoundAssert(sess[s], msgs) = "none"
         => /\ NextRound(sess[s], msgs, "decrypt") = Raise(sess[s], "decrypt")
            /\ \A k \in Keys \ {sess[s].authKey} :
                 msgs # <<>> =>
                   NextRound(sess[s], Readdressed(msgs, k), "none")
                     = Raise(sess[s], "decrypt")

\* a restore call under another party's key has just failed, while the
\* session that was exported can take its peer's envelope
C15_Witness ==
  /\ last.op = "restore" /\ ~last.ok /\ last.err = "decrypt"
  /\ sess[RestoreSlot] = NoSession
  /\ \E s \in Live, msgs \in Arrays :
       msgs # <<>> /\ NextRoundAssert(sess[s], msgs) = "none"

\* C16: a removeNetwork call that resolves to a registered network leaves
\* that network out of the list and out of every lookup: get(v) returns it
\* for no lookup value v; a lookup that resolved to another network still
\* resolves to the same one.
C16_RemovedNetworkIsGone ==
  [][(last'.op = "remove" /\ last'.network \in Range(networks))
       => /\ last'.network \notin Range(networks')
          /\ \A v \in LookupValues :
               /\ Get(Registry', v, NoKeys) # last'.network
               /\ Get(Registry, v, NoKeys) # last'.network
                    => Get(Registry', v, NoKeys) = Get(Registry, v, NoKeys)]_vars

\* the registered networks that have v as a field value
Having(v) == { i \in 1 .. Len(networks) : v \in ValuesOf(networks[i]) }

\* C17: after any add and remove calls, get(v) with no keys argument
\* returns the earliest-added registered network that has v as a field
\* value, and undefined when no registered network has v.
C17_GetFindsEarliestRegistered ==
  \A v \in LookupValues :
    Get(Registry, v, NoKeys) =
      IF Having(v) = {} THEN NoNetwork
      ELSE networks[CHOOSE i \in Having(v) : \A j \in Having(v) : i <= j]

\* the envelope that the call made last returned
Returned(s) == out'[s][Len(out'[s])]

\* C18: the envelope a successful initJoin or nextRound call returns
\* carries the session's partyId and the round the session was in before
\* the call (its new round - 1); a peer in a 2-signer quorum that is at the
\* same round as the session is now finds that tag to be the one its
\* nextRound assertions require.
C18_EnvelopeTaggedWithPreviousRound ==
  [][\A s \in Live :
       (Called(s, RoundAdvances) /\ last'.ok)
         => /\ Len(out'[s]) = Len(out[s]) + 1
            /\ Returned(s).partyId = sess[s].partyId
            /\ Returned(s).round = sess[s].round
            /\ Returned(s).round = sess'[s].round - 1
            /\ last'.op = "initJoin" => Returned(s).round = 0
            /\ \A t \in Live :
                 (/\ sess'[t].partyId # sess[s].partyId
                  /\ sess'[t].round = sess'[s].round
                  /\ sess'[t].round < FinalRound
                  /\ sess'[t].minSigners = 2)
                   => NextRoundAssert(sess'[t], <<Returned(s)>>) = "none"]_vars

\* a nextRound call has just returned the envelope of round 2 to a session
\* whose peer is at round 3 as well
C18_Witness ==
  /\ last.op = "nextRound" /\ last.ok
  /\ out[last.slot] # <<>>
  /\ out[last.slot][Len(out[last.slot])].round = 2
  /\ \E t \in Live : t # last.slot /\ sess[t].round = sess[last.slot].round

\* the envelopes of msgs, each with the partyId tag rewritten to id
Retagged(msgs, id) ==
  [i \in 1 .. Len(msgs) |-> [msgs[i] EXCEPT !.partyId = id]]

\* the partyId tags of msgs are pairwise distinct, within [0, n) and not the
\* session's own
QuorumExcludingSelf(self, msgs) ==
  /\ Len(msgs) = self.minSigners - 1
  /\ \A i, j \in 1 .. Len(msgs) : i # j => msgs[i].partyId # msgs[j].partyId
  /\ \A i \in 1 .. Len(msgs) :
       /\ msgs[i].partyId \in 0 .. (self.partySize - 1)
       /\ msgs[i].partyId # self.partyId

\* C19: every array of envelopes that nextRound accepts is a quorum
\* excluding self; an array with two envelopes of one partyId, or with a
\* partyId outside [0, n), is rejected with the engine as it was.
C19_AcceptedSetIsQuorum ==
  \A s \in Live, msgs \in Arrays, id \in 0 .. (MaxParties + 1) :
    \A given \in {msgs, Retagged(msgs, id)} :
      LET r == NextRound(sess[s], given, "none")
      IN /\ r.ok => QuorumExcludingSelf(sess[s], given)
         /\ ~QuorumExcludingSelf(sess[s], given)
              => ~r.ok /\ r.self.dsg = sess[s].dsg

\* the invocations on session s that have returned an envelope
ReturnedCalls(s) == { i \in 1 .. Len(calls[s]) : calls[s][i].pc = "returned" }

\* C20: of the initJoin invocations started on a session, overlapping or
\* not, at most one returns an envelope, at most one envelope tagged round 0
\* is emitted, and round is never taken past 1.
C20_OverlappingInitJoinOnce ==
  \A s \in Live :
    /\ Cardinality(ReturnedCalls(s)) <= 1
    /\ Cardinality({ i \in 1 .. Len(out[s]) : out[s][i].round = 0 }) <= 1
    /\ sess[s].round <= 1

=============================================================================
